---- MODULE Spec2Model ----
(***************************************************************************)
(* Model of the SMB log search tool (smb_tool.go and its go-smb2 variant). *)
(*                                                                         *)
(* Part 1: main's two fan-out/fan-in phases (discovery, then search) with  *)
(*         their goroutines, WaitGroups and unbuffered channels.           *)
(* Part 2: searchStringInFileSMB on top of bufio.Reader.ReadLine.          *)
(***************************************************************************)
EXTENDS Integers, Sequences, FiniteSets, TLC

\* ---------------------------------------------------------------- bounds
\* Number of entries of the `servers` slice that the model runs with.
NumRoots == 2
\* Upper bound on the number of .log files the share holds over all roots.
MaxTotalFiles == 3

Roots == 1..NumRoots
Tasks == 1..MaxTotalFiles

VARIABLES
    mainPc,             \* position of main
    exitStatus,         \* process exit status, -1 while running
    sessionOpen,        \* smbSession / smbShareFS is connected and not closed
    closeCalls,         \* number of times the deferred Close has run
    loopIdx,            \* index of the range loop main is in
    dpc,                \* position of each discovery goroutine
    files,              \* `files` of each discovery goroutine
    rootFailed,         \* findLogFilesSMB returned an error for the root
    findWg,             \* findWg counter
    findCloser,         \* position of the goroutine that closes logFilesChan
    logFilesChanClosed, \* close(logFilesChan) has run
    allLogFiles,        \* main's allLogFiles
    allLogFilesCount,   \* the atomically incremented counter
    spc,                \* position of each search goroutine
    sres,               \* what searchStringInFileSMB returned to the goroutine
    searchWg,           \* searchWg counter
    searchCloser,       \* position of the goroutine that closes foundFilesChan
    foundFilesChanClosed,
    allFoundInFiles,    \* main's allFoundInFiles
    out,                \* the report lines main has printed
    fetchResult,        \* outcome of the optional fetch
    \* --- one call of searchStringInFileSMB
    variant,            \* "stacktitan" (smb_tool.go) or "smb2" (go-smb2 variant)
    content,            \* the bytes of the remote file
    needle,             \* searchString, as bytes
    eofWithData,        \* the file's Read returns io.EOF together with its last bytes
    scanPc,             \* position inside searchStringInFileSMB
    rpos,               \* bytes of the file the bufio.Reader has handed out
    line,               \* the line being assembled
    scanFound,          \* the bool returned
    scanErr,            \* the error returned: "nil", "open" or "read"
    readFails,          \* the file's bytes are followed by a read error, not io.EOF
    \* --- one call of findLogFilesSMB
    walkPc,             \* position inside findLogFilesSMB
    visits,             \* the entries the walk hands to the callback, in order
    widx,               \* number of callback invocations so far
    logFiles,           \* findLogFilesSMB's logFiles
    walkErr,            \* the error findLogFilesSMB wraps: "nil", "callback", "library"
    \* --- the fetch prompt and fetchFileSMB
    goos,               \* the platform the binary is built for
    fileToFetch,        \* the trimmed answer to the fetch prompt
    localFileName,      \* main's localFileName
    fetchPc,            \* position inside the fetch
    fetchErr,           \* the error fetchFileSMB returned: "nil", "open", "create", "copy"
    localState,         \* the local destination: "absent", "old", "empty", "partial", "complete"
    \* --- calls made on the share and on the local file system
    calls               \* sequence of [op, path]

mainVars == <<mainPc, exitStatus, sessionOpen, closeCalls, loopIdx, dpc, files, rootFailed,
              findWg, findCloser, logFilesChanClosed, allLogFiles,
              allLogFilesCount, spc, sres, searchWg, searchCloser,
              foundFilesChanClosed, allFoundInFiles, out, fetchResult>>

scanVars == <<variant, content, needle, eofWithData, scanPc, rpos, line,
              scanFound, scanErr, readFails>>

walkVars == <<walkPc, visits, widx, logFiles, walkErr>>

fetchVars == <<goos, fileToFetch, localFileName, fetchPc, fetchErr, localState>>

\* Everything main's goroutine structure leaves alone.
auxVars == <<scanVars, walkVars, fetchVars, calls>>

vars == <<mainVars, auxVars>>

\* ------------------------------------------------------------- helpers
\* The path of the k-th .log file under root r, as the walk reports it.
PathOf(r, k) == <<r, k>>

\* The list findLogFilesSMB returns for a root holding n .log files.
WalkResult(r, n) == [k \in 1..n |-> PathOf(r, k)]

RECURSIVE SumLen(_, _)
SumLen(f, S) ==
    IF S = {} THEN 0
    ELSE LET r == CHOOSE x \in S : TRUE IN Len(f[r]) + SumLen(f, S \ {r})

Range(s) == {s[k] : k \in 1..Len(s)}

\* sync.WaitGroup.Wait returns once the counter is zero.
WaitReturns(wg) == wg = 0

\* atomic.AddInt32(&allLogFilesCount, int32(len(files)))
AddCountOne(count, fs) == count + 1

AddCount(count, fs) == count + Len(fs)

\* The search goroutine sends its path iff err == nil and found.
SendsPathAlways(res) == res \in {"found", "notfound"}

SendsPathOnError(res) == res \in {"found", "error"}

SendsPath(res) == res = "found"

\* Where the discovery goroutine goes when findLogFilesSMB fails: it
\* returns, and the deferred findWg.Done() is still to run.
AfterWalkErrorNoDone == "done"

AfterWalkError == "fin"

\* Where the search goroutine goes after searchStringInFileSMB: to the
\* send on a hit, otherwise to its return (deferred searchWg.Done()).
AfterScanErrorNoDone(res) ==
    IF SendsPath(res) THEN "send" ELSE IF res = "error" THEN "done" ELSE "fin"

AfterScan(res) == IF SendsPath(res) THEN "send" ELSE "fin"

\* ---------------------------------------------------------------- Init
MainInit ==
    /\ mainPc = "connect"
    /\ exitStatus = -1
    /\ sessionOpen = FALSE
    /\ closeCalls = 0
    /\ loopIdx = 1
    /\ dpc = [r \in Roots |-> "idle"]
    /\ files = [r \in Roots |-> <<>>]
    /\ rootFailed = [r \in Roots |-> FALSE]
    /\ findWg = 0
    /\ findCloser = "idle"
    /\ logFilesChanClosed = FALSE
    /\ allLogFiles = <<>>
    /\ allLogFilesCount = 0
    /\ spc = [j \in Tasks |-> "idle"]
    /\ sres = [j \in Tasks |-> "none"]
    /\ searchWg = 0
    /\ searchCloser = "idle"
    /\ foundFilesChanClosed = FALSE
    /\ allFoundInFiles = <<>>
    /\ out = <<>>
    /\ fetchResult = "none"

\* No call of searchStringInFileSMB is being followed step by step.
ScanOff ==
    /\ content = <<>>
    /\ needle = <<>>
    /\ eofWithData = FALSE
    /\ scanPc = "off"
    /\ rpos = 0
    /\ line = <<>>
    /\ scanFound = FALSE
    /\ scanErr = "nil"
    /\ readFails = FALSE

\* main as smb_tool.go has it, its scans not followed step by step.
ScanIdle == variant = "stacktitan" /\ ScanOff

\* No call of findLogFilesSMB is being followed step by step.
WalkIdle ==
    /\ walkPc = "off"
    /\ visits = <<>>
    /\ widx = 0
    /\ logFiles = <<>>
    /\ walkErr = "nil"

\* The fetch is not being followed step by step.
FetchIdle ==
    /\ goos = "unix"
    /\ fileToFetch = <<>>
    /\ localFileName = <<>>
    /\ fetchPc = "off"
    /\ fetchErr = "nil"
    /\ localState = "absent"

Init == MainInit /\ ScanIdle /\ WalkIdle /\ FetchIdle /\ calls = <<>>

\* ------------------------------------------------------------- main
\* A return of main that closes the session itself and then runs the
\* deferred Close as well.
DeferredCloseAfterClose ==
    /\ sessionOpen' = FALSE
    /\ closeCalls' = closeCalls + 2

\* defer smbSession.Close() / defer closeFunc(), run when main returns.
DeferredClose ==
    /\ sessionOpen' = FALSE
    /\ closeCalls' = closeCalls + 1

\* A connect failure that is only logged: main carries on without a session.
ConnectFailLogged ==
    /\ mainPc = "connect"
    /\ mainPc' = "spawn_find"
    /\ UNCHANGED <<auxVars, exitStatus, sessionOpen, closeCalls, loopIdx, dpc, files,
                   rootFailed, findWg, findCloser, logFilesChanClosed,
                   allLogFiles, allLogFilesCount, spc, sres, searchWg,
                   searchCloser, foundFilesChanClosed, allFoundInFiles, out,
                   fetchResult>>

\* connectSMB fails: log.Fatalf ends the process with status 1.
ConnectFail ==
    /\ mainPc = "connect"
    /\ mainPc' = "fatal"
    /\ exitStatus' = 1
    /\ UNCHANGED <<auxVars, sessionOpen, closeCalls, loopIdx, dpc, files, rootFailed, findWg,
                   findCloser, logFilesChanClosed, allLogFiles,
                   allLogFilesCount, spc, sres, searchWg, searchCloser,
                   foundFilesChanClosed, allFoundInFiles, out, fetchResult>>

ConnectOk ==
    /\ mainPc = "connect"
    /\ mainPc' = "spawn_find"
    /\ sessionOpen' = TRUE
    /\ loopIdx' = 1
    /\ UNCHANGED <<auxVars, exitStatus, closeCalls, dpc, files, rootFailed, findWg,
                   findCloser, logFilesChanClosed, allLogFiles,
                   allLogFilesCount, spc, sres, searchWg, searchCloser,
                   foundFilesChanClosed, allFoundInFiles, out, fetchResult>>

\* for _, server := range servers { findWg.Add(1); go func(server) {...} }
SpawnFind ==
    /\ mainPc = "spawn_find"
    /\ loopIdx <= NumRoots
    /\ findWg' = findWg + 1
    /\ dpc' = [dpc EXCEPT ![loopIdx] = "walk"]
    /\ loopIdx' = loopIdx + 1
    /\ UNCHANGED <<auxVars, mainPc, exitStatus, sessionOpen, closeCalls, files, rootFailed,
                   findCloser, logFilesChanClosed, allLogFiles,
                   allLogFilesCount, spc, sres, searchWg, searchCloser,
                   foundFilesChanClosed, allFoundInFiles, out, fetchResult>>

\* go func() { findWg.Wait(); close(logFilesChan) }()
SpawnFindCloser ==
    /\ mainPc = "spawn_find"
    /\ loopIdx > NumRoots
    /\ findCloser' = "wait"
    /\ mainPc' = "collect_files"
    /\ UNCHANGED <<auxVars, exitStatus, sessionOpen, closeCalls, loopIdx, dpc, files, rootFailed,
                   findWg, logFilesChanClosed, allLogFiles,
                   allLogFilesCount, spc, sres, searchWg, searchCloser,
                   foundFilesChanClosed, allFoundInFiles, out, fetchResult>>

\* ------------------------------------------------- discovery goroutine
\* files, err := findLogFilesSMB(session, path): the share answers with the
\* root's .log files, or the walk fails as a whole.
Walk(r) ==
    /\ dpc[r] = "walk"
    /\ \E ok \in BOOLEAN, n \in 0..(MaxTotalFiles - SumLen(files, Roots)) :
         IF ok
         THEN /\ files' = [files EXCEPT ![r] = WalkResult(r, n)]
              /\ dpc' = [dpc EXCEPT ![r] = "send"]
              /\ UNCHANGED rootFailed
         ELSE /\ n = 0
              /\ rootFailed' = [rootFailed EXCEPT ![r] = TRUE]
              /\ dpc' = [dpc EXCEPT ![r] = AfterWalkError]
              /\ UNCHANGED files
    /\ UNCHANGED <<auxVars, mainPc, exitStatus, sessionOpen, closeCalls, loopIdx, findWg,
                   findCloser, logFilesChanClosed, allLogFiles,
                   allLogFilesCount, spc, sres, searchWg, searchCloser,
                   foundFilesChanClosed, allFoundInFiles, out, fetchResult>>

\* A discovery goroutine that appends its files to allLogFiles itself
\* instead of sending them to main.
SendFilesAppendsItself(r) ==
    /\ dpc[r] = "send"
    /\ allLogFiles' = allLogFiles \o files[r]
    /\ dpc' = [dpc EXCEPT ![r] = "count"]
    /\ UNCHANGED <<auxVars, mainPc, exitStatus, sessionOpen, closeCalls, loopIdx, files, rootFailed,
                   findWg, findCloser, logFilesChanClosed,
                   allLogFilesCount, spc, sres, searchWg, searchCloser,
                   foundFilesChanClosed, allFoundInFiles, out, fetchResult>>

\* logFilesChan <- files, meeting main's `for files := range logFilesChan`
\* with its body allLogFiles = append(allLogFiles, files...).
SendFiles(r) ==
    /\ dpc[r] = "send"
    /\ mainPc = "collect_files"
    /\ ~logFilesChanClosed
    /\ allLogFiles' = allLogFiles \o files[r]
    /\ dpc' = [dpc EXCEPT ![r] = "count"]
    /\ UNCHANGED <<auxVars, mainPc, exitStatus, sessionOpen, closeCalls, loopIdx, files, rootFailed,
                   findWg, findCloser, logFilesChanClosed,
                   allLogFilesCount, spc, sres, searchWg, searchCloser,
                   foundFilesChanClosed, allFoundInFiles, out, fetchResult>>

CountFiles(r) ==
    /\ dpc[r] = "count"
    /\ allLogFilesCount' = AddCount(allLogFilesCount, files[r])
    /\ dpc' = [dpc EXCEPT ![r] = "fin"]
    /\ UNCHANGED <<auxVars, mainPc, exitStatus, sessionOpen, closeCalls, loopIdx, files, rootFailed,
                   findWg, findCloser, logFilesChanClosed, allLogFiles,
                   spc, sres, searchWg, searchCloser,
                   foundFilesChanClosed, allFoundInFiles, out, fetchResult>>

\* defer findWg.Done()
FindDone(r) ==
    /\ dpc[r] = "fin"
    /\ findWg' = findWg - 1
    /\ dpc' = [dpc EXCEPT ![r] = "done"]
    /\ UNCHANGED <<auxVars, mainPc, exitStatus, sessionOpen, closeCalls, loopIdx, files, rootFailed,
                   findCloser, logFilesChanClosed, allLogFiles,
                   allLogFilesCount, spc, sres, searchWg, searchCloser,
                   foundFilesChanClosed, allFoundInFiles, out, fetchResult>>

\* findWg.Wait() in the closing goroutine.
FindWaitSkipped ==
    /\ findCloser = "wait"
    /\ findCloser' = "close"
    /\ UNCHANGED <<auxVars, mainPc, exitStatus, sessionOpen, closeCalls, loopIdx, dpc, files,
                   rootFailed, findWg, logFilesChanClosed, allLogFiles,
                   allLogFilesCount, spc, sres, searchWg, searchCloser,
                   foundFilesChanClosed, allFoundInFiles, out, fetchResult>>

FindWaitReturns ==
    /\ findCloser = "wait"
    /\ WaitReturns(findWg)
    /\ findCloser' = "close"
    /\ UNCHANGED <<auxVars, mainPc, exitStatus, sessionOpen, closeCalls, loopIdx, dpc, files,
                   rootFailed, findWg, logFilesChanClosed, allLogFiles,
                   allLogFilesCount, spc, sres, searchWg, searchCloser,
                   foundFilesChanClosed, allFoundInFiles, out, fetchResult>>

CloseLogFilesChan ==
    /\ findCloser = "close"
    /\ logFilesChanClosed' = TRUE
    /\ findCloser' = "done"
    /\ UNCHANGED <<auxVars, mainPc, exitStatus, sessionOpen, closeCalls, loopIdx, dpc, files,
                   rootFailed, findWg, allLogFiles,
                   allLogFilesCount, spc, sres, searchWg, searchCloser,
                   foundFilesChanClosed, allFoundInFiles, out, fetchResult>>

\* ---------------------------------------------------- main, continued
\* The range over logFilesChan ends when the channel is closed.
CollectFilesEnd ==
    /\ mainPc = "collect_files"
    /\ logFilesChanClosed
    /\ mainPc' = "check_files"
    /\ UNCHANGED <<auxVars, exitStatus, sessionOpen, closeCalls, loopIdx, dpc, files, rootFailed,
                   findWg, findCloser, logFilesChanClosed, allLogFiles,
                   allLogFilesCount, spc, sres, searchWg, searchCloser,
                   foundFilesChanClosed, allFoundInFiles, out, fetchResult>>

\* if len(allLogFiles) == 0 { print; return }  (the deferred Close runs)
NoLogFiles ==
    /\ mainPc = "check_files"
    /\ Len(allLogFiles) = 0
    /\ out' = Append(out, [line |-> "no_log_files"])
    /\ DeferredClose
    /\ exitStatus' = 0
    /\ mainPc' = "exit"
    /\ UNCHANGED <<auxVars, loopIdx, dpc, files, rootFailed,
                   findWg, findCloser, logFilesChanClosed, allLogFiles,
                   allLogFilesCount, spc, sres, searchWg, searchCloser,
                   foundFilesChanClosed, allFoundInFiles, fetchResult>>

\* "Total %d log files discovered. ..." with allLogFilesCount
ReportDiscovered ==
    /\ mainPc = "check_files"
    /\ Len(allLogFiles) # 0
    /\ out' = Append(out, [line |-> "discovered", n |-> allLogFilesCount])
    /\ loopIdx' = 1
    /\ mainPc' = "spawn_search"
    /\ UNCHANGED <<auxVars, exitStatus, sessionOpen, closeCalls, dpc, files, rootFailed,
                   findWg, findCloser, logFilesChanClosed, allLogFiles,
                   allLogFilesCount, spc, sres, searchWg, searchCloser,
                   foundFilesChanClosed, allFoundInFiles, fetchResult>>

\* for _, filePath := range allLogFiles { searchWg.Add(1); go func(path) }
SpawnSearch ==
    /\ mainPc = "spawn_search"
    /\ loopIdx <= Len(allLogFiles)
    /\ searchWg' = searchWg + 1
    /\ spc' = [spc EXCEPT ![loopIdx] = "scan"]
    /\ loopIdx' = loopIdx + 1
    /\ UNCHANGED <<auxVars, mainPc, exitStatus, sessionOpen, closeCalls, dpc, files, rootFailed,
                   findWg, findCloser, logFilesChanClosed, allLogFiles,
                   allLogFilesCount, sres, searchCloser,
                   foundFilesChanClosed, allFoundInFiles, out, fetchResult>>

SpawnSearchCloser ==
    /\ mainPc = "spawn_search"
    /\ loopIdx > Len(allLogFiles)
    /\ searchCloser' = "wait"
    /\ mainPc' = "collect_found"
    /\ UNCHANGED <<auxVars, exitStatus, sessionOpen, closeCalls, loopIdx, dpc, files, rootFailed,
                   findWg, findCloser, logFilesChanClosed, allLogFiles,
                   allLogFilesCount, spc, sres, searchWg,
                   foundFilesChanClosed, allFoundInFiles, out, fetchResult>>

\* ---------------------------------------------------- search goroutine
\* found, err := searchStringInFileSMB(session, path, searchString);
\* an error returns at once, a hit goes on to the send.  The call touches
\* no variable of main, so here only its return value is chosen; the call
\* itself is followed step by step under ScanSpec.
Scan(j) ==
    /\ spc[j] = "scan"
    /\ \E res \in {"found", "notfound", "error"} :
         /\ sres' = [sres EXCEPT ![j] = res]
         /\ spc' = [spc EXCEPT ![j] = AfterScan(res)]
    /\ UNCHANGED <<auxVars, mainPc, exitStatus, sessionOpen, closeCalls, loopIdx, dpc, files,
                   rootFailed, findWg, findCloser, logFilesChanClosed,
                   allLogFiles, allLogFilesCount, searchWg, searchCloser,
                   foundFilesChanClosed, allFoundInFiles, out, fetchResult>>

\* foundFilesChan <- path, meeting main's range over foundFilesChan with
\* its body allFoundInFiles = append(allFoundInFiles, file).
SendFound(j) ==
    /\ spc[j] = "send"
    /\ mainPc = "collect_found"
    /\ ~foundFilesChanClosed
    /\ allFoundInFiles' = Append(allFoundInFiles, allLogFiles[j])
    /\ spc' = [spc EXCEPT ![j] = "fin"]
    /\ UNCHANGED <<auxVars, mainPc, exitStatus, sessionOpen, closeCalls, loopIdx, dpc, files,
                   rootFailed, findWg, findCloser, logFilesChanClosed,
                   allLogFiles, allLogFilesCount, sres, searchWg, searchCloser,
                   foundFilesChanClosed, out, fetchResult>>

\* defer searchWg.Done()
SearchDone(j) ==
    /\ spc[j] = "fin"
    /\ searchWg' = searchWg - 1
    /\ spc' = [spc EXCEPT ![j] = "done"]
    /\ UNCHANGED <<auxVars, mainPc, exitStatus, sessionOpen, closeCalls, loopIdx, dpc, files,
                   rootFailed, findWg, findCloser, logFilesChanClosed,
                   allLogFiles, allLogFilesCount, sres, searchCloser,
                   foundFilesChanClosed, allFoundInFiles, out, fetchResult>>

\* searchWg.Wait() in the closing goroutine.
SearchWaitSkipped ==
    /\ searchCloser = "wait"
    /\ searchCloser' = "close"
    /\ UNCHANGED <<auxVars, mainPc, exitStatus, sessionOpen, closeCalls, loopIdx, dpc, files,
                   rootFailed, findWg, findCloser, logFilesChanClosed,
                   allLogFiles, allLogFilesCount, spc, sres, searchWg,
                   foundFilesChanClosed, allFoundInFiles, out, fetchResult>>

SearchWaitReturns ==
    /\ searchCloser = "wait"
    /\ WaitReturns(searchWg)
    /\ searchCloser' = "close"
    /\ UNCHANGED <<auxVars, mainPc, exitStatus, sessionOpen, closeCalls, loopIdx, dpc, files,
                   rootFailed, findWg, findCloser, logFilesChanClosed,
                   allLogFiles, allLogFilesCount, spc, sres, searchWg,
                   foundFilesChanClosed, allFoundInFiles, out, fetchResult>>

CloseFoundFilesChan ==
    /\ searchCloser = "close"
    /\ foundFilesChanClosed' = TRUE
    /\ searchCloser' = "done"
    /\ UNCHANGED <<auxVars, mainPc, exitStatus, sessionOpen, closeCalls, loopIdx, dpc, files,
                   rootFailed, findWg, findCloser, logFilesChanClosed,
                   allLogFiles, allLogFilesCount, spc, sres, searchWg,
                   allFoundInFiles, out, fetchResult>>

\* ---------------------------------------------------- main, the end
CollectFoundEnd ==
    /\ mainPc = "collect_found"
    /\ foundFilesChanClosed
    /\ mainPc' = "check_found"
    /\ UNCHANGED <<auxVars, exitStatus, sessionOpen, closeCalls, loopIdx, dpc, files, rootFailed,
                   findWg, findCloser, logFilesChanClosed, allLogFiles,
                   allLogFilesCount, spc, sres, searchWg, searchCloser,
                   foundFilesChanClosed, allFoundInFiles, out, fetchResult>>

\* if len(allFoundInFiles) == 0 { print "not found"; return }
NotFound ==
    /\ mainPc = "check_found"
    /\ Len(allFoundInFiles) = 0
    /\ out' = Append(out, [line |-> "not_found"])
    /\ DeferredClose
    /\ exitStatus' = 0
    /\ mainPc' = "exit"
    /\ UNCHANGED <<auxVars, loopIdx, dpc, files, rootFailed,
                   findWg, findCloser, logFilesChanClosed, allLogFiles,
                   allLogFilesCount, spc, sres, searchWg, searchCloser,
                   foundFilesChanClosed, allFoundInFiles, fetchResult>>

\* "--- Search Complete ---", "Total log files scanned: %d", the matches
SummaryLineMatchTotal ==
    [line |-> "scanned", n |-> Len(allFoundInFiles), matches |-> allFoundInFiles]

SummaryLine ==
    [line |-> "scanned", n |-> allLogFilesCount, matches |-> allFoundInFiles]

\* A summary and prompt that do not look at the number of matches.
ReportSummaryUngated ==
    /\ mainPc = "check_found"
    /\ out' = Append(out, SummaryLine)
    /\ mainPc' = "prompt"
    /\ UNCHANGED <<auxVars, exitStatus, sessionOpen, closeCalls, loopIdx, dpc, files, rootFailed,
                   findWg, findCloser, logFilesChanClosed, allLogFiles,
                   allLogFilesCount, spc, sres, searchWg, searchCloser,
                   foundFilesChanClosed, allFoundInFiles, fetchResult>>

ReportSummary ==
    /\ mainPc = "check_found"
    /\ Len(allFoundInFiles) # 0
    /\ out' = Append(out, SummaryLine)
    /\ mainPc' = "prompt"
    /\ UNCHANGED <<auxVars, exitStatus, sessionOpen, closeCalls, loopIdx, dpc, files, rootFailed,
                   findWg, findCloser, logFilesChanClosed, allLogFiles,
                   allLogFilesCount, spc, sres, searchWg, searchCloser,
                   foundFilesChanClosed, allFoundInFiles, fetchResult>>

\* The fetch prompt: an empty answer skips the fetch, any other answer
\* runs fetchFileSMB once; its error is printed and main goes on.
PromptAndFetch ==
    /\ mainPc = "prompt"
    /\ \E res \in {"skipped", "fetched", "failed"} : fetchResult' = res
    /\ DeferredClose
    /\ exitStatus' = 0
    /\ mainPc' = "exit"
    /\ UNCHANGED <<auxVars, loopIdx, dpc, files, rootFailed,
                   findWg, findCloser, logFilesChanClosed, allLogFiles,
                   allLogFilesCount, spc, sres, searchWg, searchCloser,
                   foundFilesChanClosed, allFoundInFiles, out>>

MainStep ==
    \/ ConnectFail \/ ConnectOk \/ SpawnFind \/ SpawnFindCloser
    \/ CollectFilesEnd \/ NoLogFiles \/ ReportDiscovered
    \/ SpawnSearch \/ SpawnSearchCloser
    \/ CollectFoundEnd \/ NotFound \/ ReportSummary \/ PromptAndFetch

FindTask(r) == Walk(r) \/ SendFiles(r) \/ CountFiles(r) \/ FindDone(r)

FindCloserStep == FindWaitReturns \/ CloseLogFilesChan

SearchTask(j) == Scan(j) \/ SendFound(j) \/ SearchDone(j)

SearchCloserStep == SearchWaitReturns \/ CloseFoundFilesChan

\* main and its goroutines; the step-by-step scan stays idle (ScanIdle).
Next ==
    \/ MainStep
    \/ \E r \in Roots : FindTask(r)
    \/ FindCloserStep
    \/ \E j \in Tasks : SearchTask(j)
    \/ SearchCloserStep

Spec == Init /\ [][Next]_vars

\* All sequences over S of length at most n.
SeqsUpTo(S, n) == UNION {[1..k -> S] : k \in 0..n}

\* ================================================================ paths
\* A path is a sequence of one-character strings.
Slash == "/"
Backslash == "\\"

\* strings.ReplaceAll(s, old, new) for one-character old and new.
ReplaceAll(s, old, new) == [i \in 1..Len(s) |-> IF s[i] = old THEN new ELSE s[i]]

\* servers[0], shortened to two characters.
ServerName == <<"s", "1">>

\* smbPathPatternWithinShare = "%s\\path-to-file", the directory shortened
\* to one character.
smbPathPatternWithinShare(server) == server \o <<Backslash, "p">>

\* serverPath := fmt.Sprintf(smbPathPatternWithinShare, server)
ServerPath == smbPathPatternWithinShare(ServerName)

\* The path the walk reports for the entry `name` directly under `root`.
EntryPath(root, name) == root \o <<Slash>> \o name

\* The form the code's comments give for paths handed to the share
\* ("SMB expects forward slashes"): no backslash.
StoreForm(path) == \A i \in 1..Len(path) : path[i] # Backslash

\* ====================================================== findLogFilesSMB
\* Most entries one walk hands to its callback.
MaxEntries == 3

\* Entry names tried: "A.LOG", "a.log", "a.logx", "log", "a.txt".
Names ==
    { <<"A", ".", "L", "O", "G">>,
      <<"a", ".", "l", "o", "g">>,
      <<"a", ".", "l", "o", "g", "x">>,
      <<"l", "o", "g">>,
      <<"a", ".", "t", "x", "t">> }

\* What the walk hands to the callback: an entry with its name and kind, or
\* an error for an entry that could not be listed (info is not looked at).
Entries ==
    [name : Names, isDir : BOOLEAN, err : {FALSE}]
        \cup {[name |-> <<"a", ".", "l", "o", "g">>, isDir |-> TRUE, err |-> TRUE]}

\* strings.ToLower on the letters that occur in Names.
ToLower(str) ==
    [i \in 1..Len(str) |->
        CASE str[i] = "A" -> "a"
          [] str[i] = "L" -> "l"
          [] str[i] = "O" -> "o"
          [] str[i] = "G" -> "g"
          [] OTHER -> str[i]]

\* strings.HasSuffix(str, suffix)
HasSuffix(str, suffix) ==
    /\ Len(str) >= Len(suffix)
    /\ SubSeq(str, Len(str) - Len(suffix) + 1, Len(str)) = suffix

\* ".log"
DotLog == <<".", "l", "o", "g">>

\* A mistaken filter: the suffix test without the directory test.
IsLogFileIgnoringKind(isDir, name) == HasSuffix(ToLower(name), DotLog)

\* !info.IsDir() && strings.HasSuffix(strings.ToLower(info.Name()), ".log")
IsLogFile(isDir, name) == ~isDir /\ HasSuffix(ToLower(name), DotLog)

\* A mistaken callback: it hands an entry's error back to the walk.
WalkFnResultPropagated(err) == IF err THEN "err" ELSE "nil"

\* The callback's return value: nil on every path.
WalkFnResult(err) == "nil"

WalkInputs ==
    /\ variant \in {"stacktitan", "smb2"}
    /\ visits \in SeqsUpTo(Entries, MaxEntries)
    /\ walkPc = "call"
    /\ widx = 0
    /\ logFiles = <<>>
    /\ walkErr = "nil"

\* err := Walk(path, callback).  With smb_tool.go's library the walk may fail
\* by itself; iofs.WalkDir only returns what the callback returns.
WalkCall ==
    /\ walkPc = "call"
    /\ calls' = Append(calls, [op |-> "walk", path |-> ServerPath])
    /\ \E ok \in BOOLEAN :
         IF ok \/ variant = "smb2"
         THEN walkPc' = "walk" /\ UNCHANGED walkErr
         ELSE walkPc' = "ret" /\ walkErr' = "library"
    /\ UNCHANGED <<visits, widx, logFiles>>
    /\ UNCHANGED <<mainVars, scanVars, fetchVars>>

\* One invocation of the callback, on the next entry of the walk.
WalkFn ==
    /\ walkPc = "walk"
    /\ widx < Len(visits)
    /\ LET v == visits[widx + 1]
       IN  /\ widx' = widx + 1
           /\ logFiles' =
                 IF ~v.err /\ IsLogFile(v.isDir, v.name)
                 THEN Append(logFiles,
                             ReplaceAll(EntryPath(ServerPath, v.name), Slash, Backslash))
                 ELSE logFiles
           /\ IF WalkFnResult(v.err) = "nil"
              THEN UNCHANGED <<walkPc, walkErr>>
              ELSE walkPc' = "ret" /\ walkErr' = "callback"
    /\ UNCHANGED <<visits, calls>>
    /\ UNCHANGED <<mainVars, scanVars, fetchVars>>

\* The walk has handed out its last entry.
WalkEnd ==
    /\ walkPc = "walk"
    /\ widx = Len(visits)
    /\ walkPc' = "ret"
    /\ UNCHANGED <<visits, widx, logFiles, walkErr, calls>>
    /\ UNCHANGED <<mainVars, scanVars, fetchVars>>

\* if err != nil { return nil, ... }; return logFiles, nil
WalkReturn ==
    /\ walkPc = "ret"
    /\ walkPc' = "done"
    /\ logFiles' = IF walkErr # "nil" THEN <<>> ELSE logFiles
    /\ UNCHANGED <<visits, widx, walkErr, calls>>
    /\ UNCHANGED <<mainVars, scanVars, fetchVars>>

WalkNext == WalkCall \/ WalkFn \/ WalkEnd \/ WalkReturn

\* One call of findLogFilesSMB on its own.
WalkInit == MainInit /\ ScanOff /\ WalkInputs /\ FetchIdle /\ calls = <<>>

WalkSpec == WalkInit /\ [][WalkNext]_vars

\* ================================================ searchStringInFileSMB
\* Size of the bufio.Reader buffer the model runs with (bufio.NewReader
\* gives 4096 bytes; the chunking only depends on lengths relative to it).
BufSize == 2
\* Longest file content tried.
MaxFileLen == 5

\* Line feed and carriage return, the bytes ReadLine treats as line ends.
LF == 10
CR == 13

\* The bytes of the files tried: 'a', 'b', LF, CR.
TextBytes == {97, 98, LF, CR}

\* The search strings tried: "", "a", "ab", "ba".
Needles == {<<>>, <<97>>, <<97, 98>>, <<98, 97>>}

Min(a, b) == IF a <= b THEN a ELSE b

\* bytes.IndexByte, 1-based; 0 when c does not occur.
IndexByte(s, c) ==
    IF \E i \in 1..Len(s) : s[i] = c
    THEN CHOOSE i \in 1..Len(s) : s[i] = c /\ \A k \in 1..(i - 1) : s[k] # c
    ELSE 0

\* strings.Contains(s, sub)
Contains(s, sub) ==
    \E i \in 0..(Len(s) - Len(sub)) : SubSeq(s, i + 1, i + Len(sub)) = sub

\* bufio.Reader.ReadSlice('\n') with `pos` bytes of the file handed out so
\* far: up to the first LF within the buffer, else the rest of the file
\* with io.EOF once the file's end has been seen, else a full buffer with
\* ErrBufferFull.  `eofData`: the file delivers io.EOF together with its
\* last bytes, so that a rest of exactly one buffer is seen as the end.
\* `fails`: what follows the bytes is a read error instead of io.EOF (the
\* error stays on every later read).
ReadSlice(bytes, pos, eofData, fails) ==
    LET rem == SubSeq(bytes, pos + 1, Len(bytes))
        win == SubSeq(rem, 1, Min(BufSize, Len(rem)))
        i   == IndexByte(win, LF)
    IN  IF i > 0
        THEN [line |-> SubSeq(win, 1, i), err |-> "nil", adv |-> i]
        ELSE IF Len(rem) < BufSize \/ (Len(rem) = BufSize /\ eofData)
        THEN [line |-> rem, err |-> IF fails THEN "ErrRead" ELSE "EOF",
              adv |-> Len(rem)]
        ELSE [line |-> win, err |-> "ErrBufferFull", adv |-> BufSize]

\* bufio.Reader.ReadLine: a full buffer is a prefix (a trailing CR is put
\* back), an error comes alone and only with no bytes, and the line end
\* (LF or CR LF) is dropped.
ReadLine(bytes, pos, eofData, fails) ==
    LET rs == ReadSlice(bytes, pos, eofData, fails)
        n  == Len(rs.line)
    IN  IF rs.err = "ErrBufferFull"
        THEN IF n > 0 /\ rs.line[n] = CR
             THEN [line |-> SubSeq(rs.line, 1, n - 1), isPrefix |-> TRUE,
                   err |-> "nil", pos |-> pos + rs.adv - 1]
             ELSE [line |-> rs.line, isPrefix |-> TRUE,
                   err |-> "nil", pos |-> pos + rs.adv]
        ELSE IF n = 0
        THEN [line |-> <<>>, isPrefix |-> FALSE, err |-> rs.err, pos |-> pos]
        ELSE IF rs.line[n] = LF
        THEN LET drop == IF n > 1 /\ rs.line[n - 1] = CR THEN 2 ELSE 1
             IN  [line |-> SubSeq(rs.line, 1, n - drop), isPrefix |-> FALSE,
                  err |-> "nil", pos |-> pos + rs.adv]
        ELSE [line |-> rs.line, isPrefix |-> FALSE,
              err |-> "nil", pos |-> pos + rs.adv]

\* UTF-8 bytes of one code point of the basic plane.
Utf8(cp) ==
    IF cp < 128 THEN <<cp>>
    ELSE IF cp < 2048 THEN <<192 + (cp \div 64), 128 + (cp % 64)>>
    ELSE <<224 + (cp \div 4096), 128 + ((cp \div 64) % 64), 128 + (cp % 64)>>

\* The UTF-16 decoder on 16-bit units: a lone surrogate or an odd last
\* byte becomes U+FFFD.
RECURSIVE DecodeUnits(_, _)
DecodeUnits(bs, bigEndian) ==
    IF Len(bs) = 0 THEN <<>>
    ELSE IF Len(bs) = 1 THEN Utf8(65533)
    ELSE LET u == IF bigEndian THEN bs[1] * 256 + bs[2] ELSE bs[2] * 256 + bs[1]
         IN  Utf8(IF u >= 55296 /\ u <= 57343 THEN 65533 ELSE u)
                 \o DecodeUnits(SubSeq(bs, 3, Len(bs)), bigEndian)

\* transform.Bytes(unicode.UTF16(endianness, unicode.UseBOM).NewDecoder(), line):
\* a leading byte order mark is consumed and decides the byte order.
Utf16Decode(bs, bigEndian) ==
    IF Len(bs) > 1 /\ bs[1] = 255 /\ bs[2] = 254
    THEN DecodeUnits(SubSeq(bs, 3, Len(bs)), FALSE)
    ELSE IF Len(bs) > 1 /\ bs[1] = 254 /\ bs[2] = 255
    THEN DecodeUnits(SubSeq(bs, 3, Len(bs)), TRUE)
    ELSE DecodeUnits(bs, bigEndian)

\* smb_tool.go: `var isUTF16 bool = false`, never assigned afterwards.
isUTF16 == FALSE

\* smb_tool.go: decodedLine of a whole line.
DecodedLineStacktitan(l) == IF isUTF16 THEN Utf16Decode(l, FALSE) ELSE l

\* decodeErr of transform.Bytes with a UseBOM decoder: malformed input is
\* replaced by U+FFFD, never reported.
DecodeErr(l) == "nil"

\* go-smb2 variant: decodedLine of a whole line, by the line's first two
\* bytes; the raw line when decoding reports an error.
DecodedLineSmb2(l) ==
    IF Len(l) > 1 /\ l[1] = 255 /\ l[2] = 254
    THEN IF DecodeErr(l) = "nil" THEN Utf16Decode(l, FALSE) ELSE l
    ELSE IF Len(l) > 1 /\ l[1] = 254 /\ l[2] = 255
    THEN IF DecodeErr(l) = "nil" THEN Utf16Decode(l, TRUE) ELSE l
    ELSE l

\* The filePath argument: an entry as findLogFilesSMB lists it.
ScanFilePath ==
    ReplaceAll(EntryPath(ServerPath, <<"a", ".", "l", "o", "g">>), Slash, Backslash)

\* The path searchStringInFileSMB opens: the go-smb2 variant replaces the
\* backslashes first, smb_tool.go passes filePath as it is.
ScanOpenPath(v, filePath) ==
    IF v = "smb2" THEN ReplaceAll(filePath, Backslash, Slash) ELSE filePath

\* The scan's own variables at the call of searchStringInFileSMB.
ScanStart ==
    /\ scanPc = "open"
    /\ rpos = 0
    /\ line = <<>>
    /\ scanFound = FALSE
    /\ scanErr = "nil"

ScanInputs ==
    /\ variant \in {"stacktitan", "smb2"}
    /\ content \in SeqsUpTo(TextBytes, MaxFileLen)
    /\ needle \in Needles
    /\ eofWithData \in BOOLEAN
    /\ readFails \in BOOLEAN
    /\ ScanStart

scanInputVars == <<variant, content, needle, eofWithData, readFails>>

\* file, err := Open(filePath); on error return false, err
OpenFile ==
    /\ scanPc = "open"
    /\ calls' = Append(calls, [op |-> "open", path |-> ScanOpenPath(variant, ScanFilePath)])
    /\ \E ok \in BOOLEAN :
         IF ok
         THEN scanPc' = "read" /\ UNCHANGED scanErr
         ELSE scanPc' = "done" /\ scanErr' = "open"
    /\ UNCHANGED <<scanInputVars, rpos, line, scanFound>>
    /\ UNCHANGED <<mainVars, walkVars, fetchVars>>

\* A match test that notes the match and reads on to the end of the file.
TestLineReadsOn(l, decoded) ==
    /\ scanFound' = (scanFound \/ Contains(decoded, needle))
    /\ scanPc' = "read"
    /\ line' = <<>>

\* The match test on a whole line and what follows it: return true, or
\* drop the line and read on.
TestLine(l, decoded) ==
    IF Contains(decoded, needle)
    THEN /\ scanFound' = TRUE
         /\ scanPc' = "done"
         /\ line' = l
    ELSE /\ scanPc' = "read"
         /\ line' = <<>>
         /\ UNCHANGED scanFound

\* A comparison that never recognises io.EOF.
IsEOFNever(err) == FALSE

\* err == io.EOF
IsEOF(err) == err = "EOF"

\* return false, err after a ReadLine error other than io.EOF
ReturnReadError ==
    /\ scanErr' = "read"
    /\ scanPc' = "done"
    /\ UNCHANGED <<line, scanFound>>

\* smb_tool.go: one turn of the `for` loop.  io.EOF breaks out of the loop
\* to `return false, nil`; a prefix is appended and the loop continues.
ReadLineStacktitan ==
    /\ variant = "stacktitan"
    /\ scanPc = "read"
    /\ LET r == ReadLine(content, rpos, eofWithData, readFails)
           l == line \o r.line
       IN  /\ rpos' = r.pos
           /\ IF IsEOF(r.err)
              THEN /\ scanPc' = "done"
                   /\ UNCHANGED <<line, scanFound, scanErr>>
              ELSE IF r.err # "nil"
              THEN ReturnReadError
              ELSE IF r.isPrefix
              THEN /\ line' = l
                   /\ UNCHANGED <<scanPc, scanFound, scanErr>>
              ELSE TestLine(l, DecodedLineStacktitan(l)) /\ UNCHANGED scanErr
    /\ UNCHANGED <<scanInputVars, calls>>
    /\ UNCHANGED <<mainVars, walkVars, fetchVars>>

\* go-smb2 variant: the ReadLine at the head of the outer loop.
ReadLineSmb2 ==
    /\ variant = "smb2"
    /\ scanPc = "read"
    /\ LET r == ReadLine(content, rpos, eofWithData, readFails)
       IN  /\ rpos' = r.pos
           /\ IF IsEOF(r.err)
              THEN /\ scanPc' = "done"
                   /\ UNCHANGED <<line, scanFound, scanErr>>
              ELSE IF r.err # "nil"
              THEN ReturnReadError
              ELSE IF r.isPrefix
              THEN /\ line' = r.line
                   /\ scanPc' = "more"
                   /\ UNCHANGED <<scanFound, scanErr>>
              ELSE TestLine(r.line, DecodedLineSmb2(r.line)) /\ UNCHANGED scanErr
    /\ UNCHANGED <<scanInputVars, calls>>
    /\ UNCHANGED <<mainVars, walkVars, fetchVars>>

\* go-smb2 variant: the ReadLine inside `for isPrefix`; io.EOF leaves the
\* inner loop with the line read so far, which is then tested.
ReadMoreSmb2 ==
    /\ variant = "smb2"
    /\ scanPc = "more"
    /\ LET r == ReadLine(content, rpos, eofWithData, readFails)
           l == line \o r.line
       IN  /\ rpos' = r.pos
           /\ IF IsEOF(r.err)
              THEN TestLine(line, DecodedLineSmb2(line)) /\ UNCHANGED scanErr
              ELSE IF r.err # "nil"
              THEN ReturnReadError
              ELSE IF r.isPrefix
              THEN /\ line' = l
                   /\ UNCHANGED <<scanPc, scanFound, scanErr>>
              ELSE TestLine(l, DecodedLineSmb2(l)) /\ UNCHANGED scanErr
    /\ UNCHANGED <<scanInputVars, calls>>
    /\ UNCHANGED <<mainVars, walkVars, fetchVars>>

ScanNext ==
    \/ OpenFile
    \/ ReadLineStacktitan
    \/ ReadLineSmb2
    \/ ReadMoreSmb2

\* One call of searchStringInFileSMB on its own: main stays where it is.
ScanInit == MainInit /\ ScanInputs /\ WalkIdle /\ FetchIdle /\ calls = <<>>

ScanSpec == ScanInit /\ [][ScanNext]_vars

\* ------------------------------------------------ scans of UTF-16 files
\* Longest text (in characters) of the UTF-16 files tried.
MaxTextLen == 4

\* The characters of those texts: 'a', 'b', line feed.
Utf16Chars == {97, 98, LF}

Utf16Texts == SeqsUpTo(Utf16Chars, MaxTextLen)

\* The byte order mark FF FE and the text in 16-bit little-endian units.
Utf16LE(t) ==
    <<255, 254>> \o [i \in 1..(2 * Len(t)) |-> IF i % 2 = 1 THEN t[(i + 1) \div 2] ELSE 0]

\* Files tried: UTF-16LE with byte order mark, the same cut off after an
\* odd number of bytes, and the plain single-byte text.
Utf16Files ==
    {Utf16LE(t) : t \in Utf16Texts}
        \cup {Utf16LE(t) \o <<97>> : t \in Utf16Texts}
        \cup Utf16Texts

Utf16Inputs ==
    /\ variant \in {"stacktitan", "smb2"}
    /\ content \in Utf16Files
    /\ needle \in Needles
    /\ eofWithData \in BOOLEAN
    /\ readFails \in BOOLEAN
    /\ ScanStart

Utf16Init == MainInit /\ Utf16Inputs /\ WalkIdle /\ FetchIdle /\ calls = <<>>

\* searchStringInFileSMB on files that may start with a byte order mark.
Utf16Spec == Utf16Init /\ [][ScanNext]_vars

\* ======================================== the fetch prompt, fetchFileSMB
\* filepath.IsPathSeparator: '/' everywhere, '\' on Windows only.
IsPathSeparator(os, c) == c = Slash \/ (os = "windows" /\ c = Backslash)

\* The path without its trailing separators.
RECURSIVE TrimTrailingSeparators(_, _)
TrimTrailingSeparators(os, path) ==
    IF path # <<>> /\ IsPathSeparator(os, path[Len(path)])
    THEN TrimTrailingSeparators(os, SubSeq(path, 1, Len(path) - 1))
    ELSE path

\* Index of the last separator of the path, 0 when it has none.
LastSeparator(os, path) ==
    IF \E i \in 1..Len(path) : IsPathSeparator(os, path[i])
    THEN CHOOSE i \in 1..Len(path) :
            /\ IsPathSeparator(os, path[i])
            /\ \A k \in (i + 1)..Len(path) : ~IsPathSeparator(os, path[k])
    ELSE 0

\* filepath.Base(path) as built for `os` (the paths tried have no volume).
Base(os, path) ==
    IF path = <<>> THEN <<".">>
    ELSE LET p == TrimTrailingSeparators(os, path)
         IN  IF p = <<>>
             THEN <<IF os = "windows" THEN Backslash ELSE Slash>>
             ELSE SubSeq(p, LastSeparator(os, p) + 1, Len(p))

\* The path fetchFileSMB opens: the go-smb2 variant replaces the backslashes
\* first, smb_tool.go passes remotePath as it is.
FetchOpenPath(v, remotePath) ==
    IF v = "smb2" THEN ReplaceAll(remotePath, Backslash, Slash) ELSE remotePath

\* Answers to the fetch prompt: none, a path as the tool lists it, the same
\* with forward slashes, a bare file name, a path with both separators.
FetchAnswers ==
    { <<>>,
      ScanFilePath,
      ReplaceAll(ScanFilePath, Backslash, Slash),
      <<"a", ".", "l", "o", "g">>,
      EntryPath(ServerPath, <<"a", ".", "l", "o", "g">>) }

\* main where it prints the fetch prompt: the first root's one candidate has
\* been scanned and has matched.
MainAtPrompt ==
    /\ mainPc = "prompt"
    /\ exitStatus = -1
    /\ sessionOpen = TRUE
    /\ closeCalls = 0
    /\ loopIdx = 2
    /\ dpc = [r \in Roots |-> "done"]
    /\ files = [r \in Roots |-> IF r = 1 THEN <<PathOf(1, 1)>> ELSE <<>>]
    /\ rootFailed = [r \in Roots |-> FALSE]
    /\ findWg = 0
    /\ findCloser = "done"
    /\ logFilesChanClosed = TRUE
    /\ allLogFiles = <<PathOf(1, 1)>>
    /\ allLogFilesCount = 1
    /\ spc = [j \in Tasks |-> IF j = 1 THEN "done" ELSE "idle"]
    /\ sres = [j \in Tasks |-> IF j = 1 THEN "found" ELSE "none"]
    /\ searchWg = 0
    /\ searchCloser = "done"
    /\ foundFilesChanClosed = TRUE
    /\ allFoundInFiles = <<PathOf(1, 1)>>
    /\ out = << [line |-> "discovered", n |-> 1],
                [line |-> "scanned", n |-> 1, matches |-> <<PathOf(1, 1)>>] >>
    /\ fetchResult = "none"

FetchInputs ==
    /\ variant \in {"stacktitan", "smb2"}
    /\ goos \in {"unix", "windows"}
    /\ fileToFetch \in FetchAnswers
    /\ localState \in {"absent", "old"}
    /\ localFileName = <<>>
    /\ fetchPc = "prompt"
    /\ fetchErr = "nil"

fetchInputVars == <<variant, goos, fileToFetch>>

fetchIdleVars ==
    <<content, needle, eofWithData, scanPc, rpos, line, scanFound, scanErr,
      readFails, walkVars, loopIdx, dpc, files, rootFailed, findWg, findCloser,
      logFilesChanClosed, allLogFiles, allLogFilesCount, spc, sres, searchWg,
      searchCloser, foundFilesChanClosed, allFoundInFiles>>

\* The prompt is printed and fileToFetch read and trimmed: an empty answer
\* skips the fetch, any other answer gives
\* localFileName := filepath.Base(fileToFetch).
ReadAnswer ==
    /\ mainPc = "prompt"
    /\ fetchPc = "prompt"
    /\ IF fileToFetch = <<>>
       THEN /\ fetchPc' = "finish"
            /\ fetchResult' = "skipped"
            /\ out' = out \o <<[line |-> "prompt"], [line |-> "fetch_skipped"]>>
            /\ UNCHANGED localFileName
       ELSE /\ fetchPc' = "open"
            /\ localFileName' = Base(goos, fileToFetch)
            /\ out' = Append(out, [line |-> "prompt"])
            /\ UNCHANGED fetchResult
    /\ UNCHANGED <<fetchInputVars, fetchIdleVars, fetchErr, localState, calls,
                   mainPc, exitStatus, sessionOpen, closeCalls>>

\* A fetch that goes on to os.Create whatever Open returned.
AfterOpenUnchecked(ok) == "create"

\* fetchFileSMB after Open: on error return it.
AfterOpen(ok) == IF ok THEN "create" ELSE "return"

\* remoteFile, err := Open(remotePath)
FetchOpen ==
    /\ fetchPc = "open"
    /\ calls' = Append(calls, [op |-> "open", path |-> FetchOpenPath(variant, fileToFetch)])
    /\ \E ok \in BOOLEAN :
         /\ fetchPc' = AfterOpen(ok)
         /\ fetchErr' = IF ok THEN fetchErr ELSE "open"
    /\ UNCHANGED <<fetchInputVars, fetchIdleVars, localFileName, localState,
                   mainPc, exitStatus, sessionOpen, closeCalls, out, fetchResult>>

\* localFile, err := os.Create(localPath): the file exists and is empty
\* afterwards, or the error is returned.
FetchCreate ==
    /\ fetchPc = "create"
    /\ calls' = Append(calls, [op |-> "create", path |-> localFileName])
    /\ \E ok \in BOOLEAN :
         IF ok
         THEN fetchPc' = "copy" /\ localState' = "empty" /\ UNCHANGED fetchErr
         ELSE fetchPc' = "return" /\ fetchErr' = "create" /\ UNCHANGED localState
    /\ UNCHANGED <<fetchInputVars, fetchIdleVars, localFileName,
                   mainPc, exitStatus, sessionOpen, closeCalls, out, fetchResult>>

\* io.Copy(localFile, remoteFile): on error what has been written stays.
FetchCopy ==
    /\ fetchPc = "copy"
    /\ calls' = Append(calls, [op |-> "copy", path |-> localFileName])
    /\ \E ok \in BOOLEAN :
         IF ok
         THEN localState' = "complete" /\ UNCHANGED fetchErr
         ELSE localState' = "partial" /\ fetchErr' = "copy"
    /\ fetchPc' = "return"
    /\ UNCHANGED <<fetchInputVars, fetchIdleVars, localFileName,
                   mainPc, exitStatus, sessionOpen, closeCalls, out, fetchResult>>

\* Back in main: the error is printed, or the success line.
FetchReport ==
    /\ fetchPc = "return"
    /\ fetchPc' = "finish"
    /\ fetchResult' = IF fetchErr = "nil" THEN "fetched" ELSE "failed"
    /\ out' = Append(out, [line |-> IF fetchErr = "nil" THEN "fetched" ELSE "fetch_failed"])
    /\ UNCHANGED <<fetchInputVars, fetchIdleVars, localFileName, fetchErr,
                   localState, calls, mainPc, exitStatus, sessionOpen, closeCalls>>

\* "Program finished.": main returns, the deferred Close runs.
ProgramFinished ==
    /\ fetchPc = "finish"
    /\ fetchPc' = "done"
    /\ mainPc' = "exit"
    /\ DeferredClose
    /\ exitStatus' = 0
    /\ out' = Append(out, [line |-> "finished"])
    /\ UNCHANGED <<fetchInputVars, fetchIdleVars, localFileName, fetchErr,
                   localState, calls, fetchResult>>

FetchNext ==
    \/ ReadAnswer
    \/ FetchOpen
    \/ FetchCreate
    \/ FetchCopy
    \/ FetchReport
    \/ ProgramFinished

\* main from the fetch prompt to its end, the fetch followed step by step.
FetchInit == MainAtPrompt /\ ScanOff /\ WalkIdle /\ FetchInputs /\ calls = <<>>

FetchSpec == FetchInit /\ [][FetchNext]_vars

\* main is a single goroutine here: it keeps running until it returns.
FetchFairSpec == FetchSpec /\ WF_vars(FetchNext)

\* ============================= the whole run, the fetch step by step
\* The answer at the prompt: none, or a path as the tool lists it.
GateInputs ==
    /\ variant = "stacktitan"
    /\ goos = "unix"
    /\ fileToFetch \in {<<>>, ScanFilePath}
    /\ localState = "absent"
    /\ localFileName = <<>>
    /\ fetchPc = "prompt"
    /\ fetchErr = "nil"

\* main's own steps up to the fetch prompt.
GateMainStep ==
    \/ ConnectFail \/ ConnectOk \/ SpawnFind \/ SpawnFindCloser
    \/ CollectFilesEnd \/ NoLogFiles \/ ReportDiscovered
    \/ SpawnSearch \/ SpawnSearchCloser
    \/ CollectFoundEnd \/ NotFound \/ ReportSummary

GateNext ==
    \/ GateMainStep
    \/ \E r \in Roots : FindTask(r)
    \/ FindCloserStep
    \/ \E j \in Tasks : SearchTask(j)
    \/ SearchCloserStep
    \/ FetchNext

GateInit == MainInit /\ ScanOff /\ WalkIdle /\ GateInputs /\ calls = <<>>

\* main and its goroutines from the connect on, with the prompt and the
\* fetch followed step by step.
GateSpec == GateInit /\ [][GateNext]_vars

\* Fairness: the Go scheduler runs every runnable goroutine, and a blocked
\* channel operation or Wait proceeds once its partner is ready.
FairSpec ==
    /\ Spec
    /\ WF_vars(MainStep)
    /\ \A r \in Roots : WF_vars(FindTask(r))
    /\ WF_vars(FindCloserStep)
    /\ \A j \in Tasks : WF_vars(SearchTask(j))
    /\ WF_vars(SearchCloserStep)

\* --------------------------------------------------------- properties
\* main has left the range over foundFilesChan.
SearchCollected ==
    \/ mainPc \in {"check_found", "prompt"}
    \/ mainPc = "exit" /\ searchCloser # "idle"

\* main has left the range over logFilesChan.
FilesCollected ==
    mainPc \in {"check_files", "spawn_search", "collect_found", "check_found",
                "prompt", "exit"}

Dispatched == 1..Len(allLogFiles)

\* How often path p occurs in the sequence s.
Occurrences(s, p) == Cardinality({k \in 1..Len(s) : s[k] = p})

ReportedTotals == {out[k].n : k \in {i \in 1..Len(out) : out[i].line \in {"discovered", "scanned"}}}

\* C1: once main has left its collection loop, allFoundInFiles holds each
\* candidate whose scan returned (true, nil) exactly once, and holds no
\* other path: none outside allLogFiles, none whose scan returned false or
\* an error.
C1_MatchSetExact ==
    SearchCollected =>
        /\ \A j \in Dispatched :
             Occurrences(allFoundInFiles, allLogFiles[j])
                 = IF sres[j] = "found" THEN 1 ELSE 0
        /\ Range(allFoundInFiles) \subseteq Range(allLogFiles)

\* Three candidates with a hit, a miss and an error, and two hits that
\* arrived in the reverse of the candidate order.
C1_Witness ==
    /\ SearchCollected
    /\ Len(allLogFiles) = 3
    /\ sres[1] = "found" /\ sres[2] = "error" /\ sres[3] = "found"
    /\ allFoundInFiles = <<allLogFiles[3], allLogFiles[1]>>

\* C2: a search goroutine exists, or main is in the dispatch loop, only
\* when every discovery goroutine has finished; the list main iterates over
\* is then the whole of what the successful roots returned.
C2_SearchAfterDiscovery ==
    (mainPc = "spawn_search" \/ \E j \in Tasks : spc[j] # "idle") =>
        /\ \A r \in Roots : dpc[r] = "done"
        /\ Range(allLogFiles) = UNION {Range(files[r]) : r \in Roots}
        /\ Len(allLogFiles) = SumLen(files, Roots)

C2_Witness ==
    /\ \E j \in Tasks : spc[j] = "scan"
    /\ mainPc = "spawn_search"
    /\ \E r \in Roots : rootFailed[r]
    /\ \E r \in Roots : Len(files[r]) >= 2

\* C3: main is past its result-collection loop only when every dispatched
\* search goroutine is done, and foundFilesChan is closed only when
\* searchWg is zero and no search goroutine has its scan or send ahead.
C3_JoinBarrier ==
    /\ SearchCollected => \A j \in Dispatched : spc[j] = "done"
    /\ foundFilesChanClosed =>
         /\ searchWg = 0
         /\ \A j \in Tasks : spc[j] \in {"idle", "done"}
         /\ \A j \in Dispatched : spc[j] = "done"

C3_Witness ==
    /\ mainPc = "prompt"
    /\ foundFilesChanClosed
    /\ \E j \in Dispatched : sres[j] = "found"
    /\ \E j \in Dispatched : sres[j] = "notfound"
    /\ \E j \in Dispatched : sres[j] = "error"

\* The run is over: main has returned or died in log.Fatalf, and no
\* goroutine is left part-way.
Terminated ==
    /\ mainPc \in {"exit", "fatal"}
    /\ \A r \in Roots : dpc[r] \in {"idle", "done"}
    /\ \A j \in Tasks : spc[j] \in {"idle", "done"}
    /\ findCloser \in {"idle", "done"}
    /\ searchCloser \in {"idle", "done"}

\* C4: under fair scheduling every run terminates, whatever roots fail in
\* discovery and whatever files fail in the scan: no goroutine stays
\* blocked on a channel or on a WaitGroup.
C4_Terminates == <>Terminated

C4_Witness ==
    /\ Terminated
    /\ mainPc = "exit"
    /\ \E r \in Roots : rootFailed[r]
    /\ \E j \in Dispatched : sres[j] = "error"
    /\ \E j \in Dispatched : sres[j] = "found"

\* C5: when scans have failed, main still gets through the collection with
\* exit status 0 or none yet, the failed candidates are not among the
\* matches, the matches are exactly the candidates found, and every total
\* reported counts the failed candidates too.
C5_ScanFailureTolerated ==
    (SearchCollected /\ \E j \in Dispatched : sres[j] = "error") =>
        /\ exitStatus \in {-1, 0}
        /\ \A j \in Dispatched :
             sres[j] = "error" => allLogFiles[j] \notin Range(allFoundInFiles)
        /\ Range(allFoundInFiles)
             = {allLogFiles[j] : j \in {i \in Dispatched : sres[i] = "found"}}
        /\ allLogFilesCount = Len(allLogFiles)
        /\ ReportedTotals = {Len(allLogFiles)}

\* Three candidates, one unreadable, the other two matched, total 3.
C5_Witness ==
    /\ mainPc = "prompt"
    /\ Len(allLogFiles) = 3
    /\ Cardinality({j \in Dispatched : sres[j] = "error"}) = 1
    /\ Len(allFoundInFiles) = 2
    /\ out[Len(out)].line = "scanned" /\ out[Len(out)].n = 3

\* C6: a root whose walk failed adds no path and nothing to the counter,
\* every path of every other root is in allLogFiles once main has left the
\* first collection loop, and after a failure logFilesChan is still closed.
C6_Safe ==
    FilesCollected =>
        /\ \A r \in Roots : rootFailed[r] =>
             /\ files[r] = <<>>
             /\ \A k \in 1..Len(allLogFiles) : allLogFiles[k][1] # r
        /\ \A r \in Roots : ~rootFailed[r] =>
             Range(files[r]) \subseteq Range(allLogFiles)
        /\ allLogFilesCount
             = Cardinality({p \in Range(allLogFiles) : ~rootFailed[p[1]]})

C6_RootFailureIsolated ==
    /\ []C6_Safe
    /\ ((\E r \in Roots : rootFailed[r]) ~> logFilesChanClosed)

C6_Witness ==
    /\ FilesCollected
    /\ logFilesChanClosed
    /\ rootFailed[1]
    /\ ~rootFailed[2]
    /\ Len(files[2]) >= 2
    /\ Range(files[2]) = Range(allLogFiles)

\* C7: every total main prints (the "discovered" line and the "scanned"
\* line) equals the number of paths in allLogFiles, and so does the counter
\* whenever main is past the first collection loop.
C7_CountMatchesList ==
    /\ \A k \in 1..Len(out) :
         out[k].line \in {"discovered", "scanned"} => out[k].n = Len(allLogFiles)
    /\ FilesCollected => allLogFilesCount = Len(allLogFiles)

C7_Witness ==
    /\ Len(out) = 2
    /\ out[1].line = "discovered" /\ out[1].n = 3
    /\ out[2].line = "scanned" /\ out[2].n = 3
    /\ Len(files[1]) >= 1 /\ Len(files[2]) >= 1

\* The search is over and main has returned.
SearchOver == mainPc = "exit" /\ searchCloser # "idle"

\* C8 as stated: at the end of every search, empty MatchSet included, a
\* line reports the total together with the matches.
C8_AsStated ==
    SearchOver =>
        \E k \in 1..Len(out) :
            /\ out[k].line = "scanned"
            /\ out[k].n = Len(allLogFiles)
            /\ out[k].matches = allFoundInFiles

\* C8 amended: the total is reported together with the matches at the end
\* of the search exactly when there is a match; with no match the run ends
\* on the "not found" line, and the total was printed only in the
\* "discovered" line before the search.
C8_TotalWithMatches ==
    SearchOver =>
        /\ out[1] = [line |-> "discovered", n |-> Len(allLogFiles)]
        /\ IF Len(allFoundInFiles) # 0
           THEN /\ Len(out) = 2
                /\ out[2] = [line |-> "scanned", n |-> Len(allLogFiles),
                             matches |-> allFoundInFiles]
           ELSE /\ out = <<out[1], [line |-> "not_found"]>>

C8_Witness ==
    /\ SearchOver
    /\ Len(allFoundInFiles) = 0
    /\ Len(allLogFiles) >= 2
    /\ out[Len(out)].line = "not_found"

\* The lines of a file: its maximal runs of bytes without LF.
RECURSIVE SplitLines(_)
SplitLines(bytes) ==
    LET i == IndexByte(bytes, LF)
    IN  IF i = 0
        THEN IF bytes = <<>> THEN <<>> ELSE <<bytes>>
        ELSE <<SubSeq(bytes, 1, i - 1)>>
                 \o SplitLines(SubSeq(bytes, i + 1, Len(bytes)))

SomeLineContains(bytes, sub) ==
    \E k \in 1..Len(SplitLines(bytes)) : Contains(SplitLines(bytes)[k], sub)

\* A line longer than the reader's buffer.
HasLongLine(bytes) ==
    \E k \in 1..Len(SplitLines(bytes)) : Len(SplitLines(bytes)[k]) > BufSize

\* searchStringInFileSMB has returned without an error.
ScanReturned == scanPc = "done" /\ scanErr = "nil"

\* C9: for a file without byte order mark and a non-empty needle, the scan
\* returns true iff some line of the file contains the needle, whatever the
\* line lengths are relative to the buffer and whether or not the last line
\* ends with a line terminator.
C9_ScanIffLineContains ==
    (ScanReturned /\ needle # <<>>) =>
        (scanFound <=> SomeLineContains(content, needle))

\* C10: a line longer than the buffer is matched or rejected as if read
\* whole, whether it ends with a line terminator or with the end of the
\* file.
C10_LongLineReassembled ==
    (ScanReturned /\ needle # <<>> /\ HasLongLine(content)) =>
        (scanFound <=> SomeLineContains(content, needle))

\* The file starts with the byte order mark FF FE.
HasBomLE(bytes) == Len(bytes) > 1 /\ bytes[1] = 255 /\ bytes[2] = 254

\* Some line of the text starts with sub.
SomeLineStartsWith(bytes, sub) ==
    \E k \in 1..Len(SplitLines(bytes)) :
        /\ Len(sub) <= Len(SplitLines(bytes)[k])
        /\ SubSeq(SplitLines(bytes)[k], 1, Len(sub)) = sub

\* Every line of the file is closed by a line feed.
EndsWithLF(bytes) == bytes # <<>> /\ bytes[Len(bytes)] = LF

\* C11: a file that starts with FF FE followed by UTF-16LE text of complete
\* lines with the needle in any of them is reported as a match, and a plain
\* file of complete lines, one of them starting with the needle, is
\* reported as a match too.
C11_Utf16Detected ==
    (ScanReturned /\ needle # <<>>) =>
        /\ \A t \in Utf16Texts :
             (content = Utf16LE(t) /\ EndsWithLF(t) /\ SomeLineContains(t, needle))
                 => scanFound
        /\ (~HasBomLE(content) /\ EndsWithLF(content)
                /\ SomeLineStartsWith(content, needle)) => scanFound

\* findLogFilesSMB has returned.
WalkReturned == walkPc = "done"

\* The entries of the walk that qualify, in the order the walk met them.
RECURSIVE Qualifying(_)
Qualifying(vs) ==
    IF vs = <<>> THEN <<>>
    ELSE LET v == vs[1]
             rest == Qualifying(SubSeq(vs, 2, Len(vs)))
         IN  IF ~v.err /\ ~v.isDir /\ HasSuffix(ToLower(v.name), DotLog)
             THEN <<v.name>> \o rest
             ELSE rest

\* The names in the list findLogFilesSMB returned (the part of each listed
\* path after the root and its separator).
ListedNames ==
    [i \in 1..Len(logFiles) |->
        SubSeq(logFiles[i], Len(ServerPath) + 2, Len(logFiles[i]))]

\* C12: an entry is in the list a successful discovery returns iff it is not
\* a directory and its lower-cased name ends with ".log": "A.LOG" is in,
\* "a.logx" is out, a directory "a.log" is out.
C12_LogFilter ==
    (WalkReturned /\ walkErr = "nil") =>
        Range(ListedNames) = Range(Qualifying(visits))

\* A walk over "A.LOG", "a.logx" and a directory "a.log" has returned.
C12_Witness ==
    /\ WalkReturned
    /\ walkErr = "nil"
    /\ visits = << [name |-> <<"A", ".", "L", "O", "G">>, isDir |-> FALSE, err |-> FALSE],
                   [name |-> <<"a", ".", "l", "o", "g", "x">>, isDir |-> FALSE, err |-> FALSE],
                   [name |-> <<"a", ".", "l", "o", "g">>, isDir |-> TRUE, err |-> FALSE] >>
    /\ Len(logFiles) = 1

\* No discovery, scan or fetch step has run.
NothingRan ==
    /\ \A r \in Roots : dpc[r] = "idle"
    /\ \A j \in Tasks : spc[j] = "idle"
    /\ findCloser = "idle"
    /\ searchCloser = "idle"
    /\ fetchResult = "none"

C13_Safe ==
    /\ mainPc = "fatal" => (exitStatus = 1 /\ ~sessionOpen /\ NothingRan)
    /\ exitStatus = 1 => mainPc = "fatal"
    /\ mainPc = "exit" => exitStatus = 0
    /\ ~NothingRan => (sessionOpen \/ mainPc = "exit")

\* C13: a failed connect ends the process with status 1 before any
\* discovery, scan or fetch step; once the connect has succeeded the run
\* reaches its normal end with status 0, whatever fails on the way.
C13_OnlyConnectFatal ==
    /\ []C13_Safe
    /\ (sessionOpen ~> (mainPc = "exit" /\ exitStatus = 0))

\* main has ended with status 0 after a failed root, a failed scan and a
\* failed fetch.
C13_Witness ==
    /\ mainPc = "exit"
    /\ exitStatus = 0
    /\ \E r \in Roots : rootFailed[r]
    /\ \E j \in Tasks : sres[j] = "error"
    /\ fetchResult = "failed"

\* C14: every path handed to a walk or an open on the share is in the
\* share's separator form, whatever form the listed paths have.
C14_StoreCallsNormalized ==
    \A i \in 1..Len(calls) :
        calls[i].op \in {"walk", "open"} => StoreForm(calls[i].path)

\* The ops of the calls made so far.
CallOps == {calls[i].op : i \in 1..Len(calls)}

\* The local destination is as it was before the fetch.
LocalUntouched == localState \in {"absent", "old"}

C15_Safe ==
    /\ fetchErr = "open" => ("create" \notin CallOps /\ "copy" \notin CallOps
                                /\ LocalUntouched)
    /\ fetchErr = "create" => ("copy" \notin CallOps /\ LocalUntouched)
    /\ fetchErr = "copy" => localState = "partial"
    /\ (fetchErr # "nil" /\ fetchPc \in {"finish", "done"}) =>
           (fetchResult = "failed" /\ [line |-> "fetch_failed"] \in Range(out))
    /\ mainPc = "exit" => exitStatus = 0

\* C15: a failed remote open leaves the local destination untouched, a
\* failed local create copies nothing, a failed copy leaves the partial
\* file; the error is printed and main runs to its normal end.
C15_FetchFailurePoints ==
    /\ []C15_Safe
    /\ (fetchErr # "nil" ~> (mainPc = "exit" /\ exitStatus = 0))

\* main has ended after a copy that failed halfway.
C15_Witness ==
    /\ mainPc = "exit"
    /\ fetchErr = "copy"
    /\ localState = "partial"
    /\ fetchResult = "failed"

\* The text after the last separator of either kind.
FinalSegment(path) == Base("windows", path)

\* C16: whatever path is entered at the prompt, in particular a path with
\* backslashes as the tool lists it, the local file the fetch creates is
\* named by the path's final segment and has no directory part.
C16_LocalNameIsFinalSegment ==
    \A i \in 1..Len(calls) :
        calls[i].op = "create" =>
            /\ calls[i].path = FinalSegment(fileToFetch)
            /\ \A k \in 1..Len(calls[i].path) :
                   calls[i].path[k] \notin {Slash, Backslash}

\* Start (exclusive) of the line that byte e of the file belongs to.
LineStart(bytes, e) ==
    IF \E k \in 1..(e - 1) : bytes[k] = LF
    THEN CHOOSE k \in 1..(e - 1) :
            bytes[k] = LF /\ \A m \in (k + 1)..(e - 1) : bytes[m] # LF
    ELSE 0

\* The positions at which a line that contains sub ends: its line feed, or
\* the end of the file for an open last line.
MatchEnds(bytes, sub) ==
    {e \in 1..Len(bytes) :
        /\ bytes[e] = LF \/ e = Len(bytes)
        /\ Contains(SubSeq(bytes, LineStart(bytes, e) + 1,
                           IF bytes[e] = LF THEN e - 1 ELSE e), sub)}

\* The positions at which a complete line that contains sub ends.
ClosedMatchEnds(bytes, sub) == {e \in MatchEnds(bytes, sub) : bytes[e] = LF}

SetMin(S) == CHOOSE x \in S : \A y \in S : x <= y

\* C17: when the scan has found a match it has returned, it has read the
\* file up to the end of the first line that contains the needle and no
\* further; and a file with a complete matching line yields true without an
\* error, whatever follows that line, a read error included.
C17_StopsAtFirstMatch ==
    /\ scanFound =>
          /\ scanPc = "done"
          /\ scanErr = "nil"
          /\ MatchEnds(content, needle) # {}
          /\ rpos = SetMin(MatchEnds(content, needle))
    /\ (scanPc = "done" /\ scanErr # "open"
            /\ ClosedMatchEnds(content, needle) # {}) =>
          (scanFound /\ scanErr = "nil")

\* The scan has returned true with bytes left unread in a file whose end is
\* a read error.
C17_Witness ==
    /\ scanPc = "done"
    /\ scanFound
    /\ readFails
    /\ needle # <<>>
    /\ rpos < Len(content)

\* C18: the scan returns an error only when the open failed or a read
\* failed with something other than io.EOF; a file read to its end without a
\* match, an empty file included, gives (false, nil), and so does a line
\* with a byte order mark whose UTF-16 text is malformed.
C18_ErrorsOnlyFromOpenOrRead ==
    scanPc = "done" =>
        /\ scanErr \in {"nil", "open", "read"}
        /\ scanErr = "open" => (rpos = 0 /\ ~scanFound)
        /\ scanErr = "read" => (readFails /\ ~scanFound)
        /\ (~readFails /\ scanErr # "open") => scanErr = "nil"
        /\ (~readFails /\ scanErr # "open" /\ content = <<>>) => ~scanFound

\* The go-smb2 variant has read a file to its end whose first line has a
\* byte order mark and an odd number of bytes, and has found no match.
C18_Witness ==
    /\ scanPc = "done"
    /\ variant = "smb2"
    /\ scanErr = "nil"
    /\ ~scanFound
    /\ needle # <<>>
    /\ HasBomLE(content)
    /\ Len(content) % 2 = 1
    /\ rpos = Len(content)

C19_Step ==
    /\ allLogFiles' # allLogFiles =>
          /\ mainPc = "collect_files"
          /\ \E r \in Roots :
                /\ dpc[r] = "send" /\ dpc'[r] = "count"
                /\ allLogFiles' = allLogFiles \o files[r]
    /\ allFoundInFiles' # allFoundInFiles =>
          /\ mainPc = "collect_found"
          /\ \E j \in Tasks :
                /\ spc[j] = "send" /\ spc'[j] = "fin"
                /\ allFoundInFiles' = Append(allFoundInFiles, allLogFiles[j])
    /\ \A r \in Roots :
          files'[r] # files[r] =>
             /\ dpc[r] = "walk" /\ dpc'[r] # "walk"
             /\ \A q \in Roots \ {r} : files'[q] = files[q]
    /\ allLogFilesCount' # allLogFilesCount =>
          \E r \in Roots :
             /\ dpc[r] = "count" /\ dpc'[r] = "fin"
             /\ allLogFilesCount' = allLogFilesCount + Len(files[r])

\* C19: the candidate list and the match list change only in steps of
\* main's receive loops, by the value a task sends; a root's file list
\* changes only in that root's own walk, before its send; the counter
\* changes only by one task's whole addition at a time.
C19_SingleWriter == [][C19_Step]_vars

\* Both roots have sent files, main has collected them and two matches,
\* and the counter has been added to by both.
C19_Witness ==
    /\ \A r \in Roots : files[r] # <<>> /\ dpc[r] = "done"
    /\ Len(allLogFiles) >= 2
    /\ Len(allFoundInFiles) >= 2
    /\ allLogFilesCount = Len(allLogFiles)

\* The callback has been handed a listing error.
SawListingError == \E i \in 1..widx : visits[i].err

\* C20: a listing error handed to the callback does not end the walk and
\* does not fail the root; the list returned has every qualifying entry the
\* walk handed over without an error, those after the failed entry included.
C20_ListingErrorSkipsBranch ==
    /\ walkErr # "callback"
    /\ (WalkReturned /\ SawListingError) =>
          /\ walkErr = "nil"
          /\ widx = Len(visits)
          /\ ListedNames = Qualifying(visits)

\* A walk whose first entry could not be listed has returned the two log
\* files that came after it.
C20_Witness ==
    /\ WalkReturned
    /\ walkErr = "nil"
    /\ Len(visits) = 3
    /\ visits[1].err
    /\ Len(logFiles) = 2

\* No discovery or search goroutine is part-way: each has finished or was
\* never started.
NoTaskRunning ==
    /\ \A r \in Roots : dpc[r] \in {"idle", "done"}
    /\ \A j \in Tasks : spc[j] \in {"idle", "done"}

\* C21: once connected, the session stays open until main returns; every
\* return of main (no candidates, no matches, after the fetch prompt) has
\* run Close exactly once; Close runs only when no discovery or search
\* goroutine is part-way, so a goroutine about to walk or scan always has
\* an open session.
C21_SessionClosedOnce ==
    /\ closeCalls \in {0, 1}
    /\ mainPc = "exit" => (closeCalls = 1 /\ ~sessionOpen)
    /\ mainPc # "exit" => closeCalls = 0
    /\ mainPc \notin {"connect", "fatal", "exit"} => sessionOpen
    /\ closeCalls > 0 => NoTaskRunning
    /\ \A r \in Roots : dpc[r] = "walk" => sessionOpen
    /\ \A j \in Tasks : spc[j] = "scan" => sessionOpen

\* main has returned by the "not found" path after scans that ran, one of
\* them with an error, and the session has been closed once.
C21_Witness ==
    /\ mainPc = "exit"
    /\ closeCalls = 1
    /\ allFoundInFiles = <<>>
    /\ \E j \in Tasks : spc[j] = "done" /\ sres[j] = "error"
    /\ \A r \in Roots : dpc[r] = "done"

\* How often the fetch prompt has been printed.
PromptCount == Cardinality({i \in 1..Len(out) : out[i].line = "prompt"})

\* How often fetchFileSMB has been entered (its first step is the Open).
FetchCount == Cardinality({i \in 1..Len(calls) : calls[i].op = "open"})

\* C22: a search goroutine exists only when candidates were discovered;
\* the prompt is printed only with a non-empty match list, and then once;
\* there is at most one fetch, only after the prompt, and none for an empty
\* answer.
C22_StagesGated ==
    /\ (\E j \in Tasks : spc[j] # "idle") => (FilesCollected /\ allLogFiles # <<>>)
    /\ PromptCount <= 1
    /\ FetchCount <= 1
    /\ PromptCount = 1 => (SearchCollected /\ allFoundInFiles # <<>>)
    /\ (mainPc = "exit" /\ allFoundInFiles # <<>>) => PromptCount = 1
    /\ (SearchCollected /\ allFoundInFiles = <<>>) =>
           (PromptCount = 0 /\ FetchCount = 0 /\ fetchResult = "none")
    /\ FetchCount = 1 => (PromptCount = 1 /\ fileToFetch # <<>>)
    /\ fileToFetch = <<>> => (calls = <<>> /\ fetchResult \in {"none", "skipped"})

\* main has returned after one prompt and one fetch.
C22_Witness ==
    /\ mainPc = "exit"
    /\ PromptCount = 1
    /\ FetchCount = 1
    /\ fetchResult = "fetched"

====
